---- MODULE Spec2Model ----
(***************************************************************************)
(* A model of the two reference operators of the dataflow core:            *)
(*   Identity (src/src/ops/identity.rs) and Permute (src/src/ops/permute.rs)*)
(* One graph node holds one operator.  The node's fields are the state;    *)
(* the Ingredient callbacks are the actions.  Permute::on_input is modelled *)
(* at the granularity of its loops, so that the in-place swap algorithm of *)
(* Permute::permute can be observed at every outer-loop iteration and every*)
(* cycle-walk step.  Column indices are 0-based as in the source; TLA+     *)
(* sequences are 1-based, hence the "+ 1" on every subscript.              *)
(***************************************************************************)
EXTENDS Integers, Sequences, FiniteSets, TLC

\* ------------------------------------------------------------------ bounds
\* widest source schema
MaxCols == 4
\* longest emit spec that repeats a source index (specs without repeats are
\* enumerated at every length up to the source width)
MaxRep == 2
\* number of node addresses
NAddr == 2
\* most records in one Update
MaxBatch == 1

\* ------------------------------------------------------------- value types
Addr == 1..NAddr

None == <<>>
Some(x) == <<x>>

Signs == {"Positive", "Negative"}

\* the row whose column c holds the value c: every column is told apart
Iota(w) == [c \in 1..w |-> c - 1]

\* permute swaps and truncates and never reads a value, so the row of distinct
\* values shows where each column of any row goes
Rows(w) == {Iota(w)}

Records(w) == [sign : Signs, row : Rows(w)]

Batches(w) == UNION {[1..n -> Records(w)] : n \in 0..MaxBatch}

\* HashMap<NodeAddress, NodeAddress>: on_commit reads it at self.src alone, so
\* the maps {} and {old -> new} show each of its outcomes
Remaps == {[a \in {} |-> a]} \cup {[a \in {old} |-> new] : old, new \in Addr}

Injective(e) == \A a, b \in 1..Len(e) : e[a] = e[b] => a = b

\* an emit spec the precondition allows: every entry a source column, none twice
ValidEmit(e, w) == (\A a \in 1..Len(e) : e[a] < w) /\ Injective(e)

EmitSpecs(w) ==
  {e \in UNION {[1..n -> 0..(w - 1)] : n \in 0..w} : Injective(e) \/ Len(e) <= MaxRep}

Min(S) == CHOOSE x \in S : \A y \in S : x <= y

\* ------------------------------------------------------------------- state
VARIABLES
  op,        \* which Ingredient the node holds: "Identity" or "Permute"
  src,       \* self.src
  us,        \* Permute.us : Option<NodeAddress>
  emit,      \* Permute.emit : Option<Vec<usize>>
  cols,      \* Permute.cols
  width,     \* g[src].fields().len(): the source schema's width
  emit0,     \* the emit argument Permute::new was given
  stage,     \* "constructed", "connected" or "committed"
  prev_src,  \* Some(self.src as it was before on_commit), while on_commit is the
             \* last call made; None otherwise
  pc,        \* "idle", "records", "outer", "walk" or "panic"
  input,     \* the records of the message of the current or last on_input
  rs,        \* on_input: input.data, rewritten in place
  r,         \* on_input: index of the record the for loop is at
  done,      \* permute: done
  oi,        \* permute: the position of the iterator 0..emit.len()
  i,         \* permute: the loop's own, mutable, i
  j,         \* permute: j
  ret        \* what the last call returned

node == <<op, src, us, emit, cols>>
env == <<width, emit0, stage, prev_src>>
frame == <<pc, input, rs, r, done, oi, i, j, ret>>
vars == <<op, src, us, emit, cols, width, emit0, stage, prev_src,
          pc, input, rs, r, done, oi, i, j, ret>>

Unit == <<"()">>
Pending == <<"pending">>
\* Option<Update>::Some(Update::Records(b))
SomeUpdate(b) == <<"Some", b>>

Running == pc \in {"records", "outer", "walk"}

\* the locals of a call that is not running
NoLocals ==
  /\ rs' = <<>>
  /\ r' = 0
  /\ done' = <<>>
  /\ oi' = 0
  /\ i' = 0
  /\ j' = 0

\* a panic unwinds the call: nothing is returned and the node is not used again
Panic ==
  /\ pc' = "panic"
  /\ ret' = Pending
  /\ NoLocals

\* ------------------------------------------------------------ construction
Permute_new(s, e) ==
  /\ op = "Permute"
  /\ emit = Some(e)
  /\ src = s
  /\ cols = 0
  /\ us = None
  /\ emit0 = e

Identity_new(s) ==
  /\ op = "Identity"
  /\ src = s
  /\ us = None
  /\ emit = None
  /\ cols = 0
  /\ emit0 = <<>>

Init ==
  /\ width \in 0..MaxCols
  /\ \/ \E s \in Addr : Identity_new(s)
     \/ \E s \in Addr : \E e \in EmitSpecs(width) : Permute_new(s, e)
  /\ stage = "constructed"
  /\ prev_src = None
  /\ pc = "idle"
  /\ input = <<>>
  /\ rs = <<>>
  /\ r = 0
  /\ done = <<>>
  /\ oi = 0
  /\ i = 0
  /\ j = 0
  /\ ret = Unit

\* ------------------------------------------------------- planning queries
Identity_ancestors == <<src>>

Permute_ancestors == <<src>>

Identity_resolve(col) == Some(<<<<src, col>>>>)

resolve_col(col) == IF emit = None THEN col ELSE emit[1][col + 1]

Permute_resolve(col) == Some(<<<<src, resolve_col(col)>>>>)

RECURSIVE join(_)
join(e) ==
  IF Len(e) = 0 THEN ""
  ELSE IF Len(e) = 1 THEN ToString(e[1])
  ELSE ToString(e[1]) \o ", " \o join(Tail(e))

Permute_description ==
  LET emit_cols == IF emit = None THEN "*" ELSE join(emit[1])
  IN  "π[" \o emit_cols \o "]"

\* ------------------------------------------------------------ on_connected
Identity_on_connected ==
  /\ op = "Identity"
  /\ pc = "idle"
  /\ stage = "constructed"
  /\ stage' = "connected"
  /\ pc' = "idle"
  /\ ret' = Unit
  /\ input' = <<>>
  /\ NoLocals
  /\ UNCHANGED <<node, width, emit0, prev_src>>

Permute_on_connected ==
  /\ op = "Permute"
  /\ pc = "idle"
  /\ stage = "constructed"
  /\ cols' = width
  /\ stage' = "connected"
  /\ pc' = "idle"
  /\ ret' = Unit
  /\ input' = <<>>
  /\ NoLocals
  /\ UNCHANGED <<op, src, us, emit, width, emit0, prev_src>>

\* --------------------------------------------------------------- on_commit
\* a commit that keeps the address it holds
keep_address(remap, a) == a

\* remap[&self.src], on a key the map holds
index(remap, a) == remap[a]

Identity_on_commit(u, remap) ==
  /\ op = "Identity"
  /\ pc = "idle"
  /\ stage \in {"connected", "committed"}
  /\ input' = <<>>
  /\ IF src \in DOMAIN remap
       THEN /\ src' = index(remap, src)
            /\ prev_src' = Some(src)
            /\ stage' = "committed"
            /\ pc' = "idle"
            /\ ret' = Unit
            /\ NoLocals
       ELSE /\ Panic
            /\ UNCHANGED <<src, prev_src, stage>>
  /\ UNCHANGED <<op, us, emit, cols, width, emit0>>

\* a collapse that forgets to compare the lengths
Only_sequential(e, c) ==
  IF \A a \in 1..Len(e) : a - 1 = e[a] THEN None ELSE Some(e)

\* a collapse that forgets to compare the entries
Only_complete(e, c) ==
  IF Len(e) = c THEN None ELSE Some(e)

\* the closure of on_commit: drop a spec that asks for no permutation
Collapse(e, c) ==
  LET complete == Len(e) = c
      sequential == \A a \in 1..Len(e) : a - 1 = e[a]
  IN  IF complete /\ sequential THEN None ELSE Some(e)

Permute_on_commit(u, remap) ==
  /\ op = "Permute"
  /\ pc = "idle"
  /\ stage \in {"connected", "committed"}
  /\ input' = <<>>
  /\ us' = Some(u)
  /\ IF src \in DOMAIN remap
       THEN /\ src' = index(remap, src)
            /\ prev_src' = Some(src)
            /\ emit' = IF emit = None THEN None ELSE Collapse(emit[1], cols)
            /\ stage' = "committed"
            /\ pc' = "idle"
            /\ ret' = Unit
            /\ NoLocals
       ELSE /\ Panic
            /\ UNCHANGED <<src, prev_src, emit, stage>>
  /\ UNCHANGED <<op, cols, width, emit0>>

\* ---------------------------------------------------------------- on_input
\* a conversion that loses the retractions
into_positive(data) == SomeUpdate(SelectSeq(data, LAMBDA rec : rec.sign = "Positive"))

\* input.data.into()
into(data) == SomeUpdate(data)

Identity_on_input(from, batch) ==
  /\ op = "Identity"
  /\ pc = "idle"
  /\ input' = batch
  /\ ret' = into(batch)
  /\ pc' = "idle"
  /\ NoLocals
  /\ prev_src' = None
  /\ UNCHANGED <<node, width, emit0, stage>>

\* debug: whether the build keeps debug assertions
Permute_on_input(from, batch, debug) ==
  /\ op = "Permute"
  /\ pc = "idle"
  /\ input' = batch
  /\ IF debug /\ from # src
       THEN Panic
       ELSE IF emit = None
         THEN /\ ret' = into(batch)
              /\ pc' = "idle"
              /\ NoLocals
         ELSE /\ rs' = batch
              /\ r' = 0
              /\ pc' = "records"
              /\ ret' = Pending
              /\ UNCHANGED <<done, oi, i, j>>
  /\ prev_src' = None
  /\ UNCHANGED <<node, width, emit0, stage>>

\* for r in rs { self.permute(r) } and the return
on_input_for ==
  /\ pc = "records"
  /\ IF r < Len(rs)
       THEN /\ done' = [c \in 1..cols |-> FALSE]
            /\ oi' = 0
            /\ pc' = "outer"
            /\ UNCHANGED <<rs, r, i, j, ret>>
       ELSE /\ ret' = into(rs)
            /\ pc' = "idle"
            /\ NoLocals
  /\ UNCHANGED <<node, env, input>>

\* ----------------------------------------------------------------- permute
data == rs[r + 1].row

\* data.swap(a, b)
swap(a, b) ==
  [rs EXCEPT ![r + 1].row = [data EXCEPT ![a + 1] = data[b + 1], ![b + 1] = data[a + 1]]]

\* data.truncate(n)
truncate(n) ==
  [rs EXCEPT ![r + 1].row = IF n < Len(data) THEN SubSeq(data, 1, n) ELSE data]

\* a search that scans every output position
search_from_zero(start) == 0

\* the first position the search of the cycle walk looks at: (i + 1)..
search_from(start) == start + 1

\* one turn of "for mut i in 0..emit.len()", up to the inner loop, and the
\* truncation after the last turn
permute_for ==
  /\ pc = "outer"
  /\ LET e == emit[1] IN
       IF oi >= Len(e)
         THEN /\ rs' = truncate(Len(e))
              /\ r' = r + 1
              /\ pc' = "records"
              /\ done' = <<>>
              /\ oi' = 0
              /\ UNCHANGED <<i, j, ret>>
         ELSE IF oi >= Len(done)
           THEN Panic
           ELSE IF done[oi + 1] \/ e[oi + 1] = oi
             THEN /\ oi' = oi + 1
                  /\ UNCHANGED <<pc, rs, r, done, i, j, ret>>
             ELSE /\ i' = oi
                  /\ j' = oi
                  /\ pc' = "walk"
                  /\ UNCHANGED <<rs, r, done, oi, ret>>
  /\ UNCHANGED <<node, env, input>>

\* break out of the inner loop: the for loop takes its next position
break(d) ==
  /\ done' = d
  /\ pc' = "outer"
  /\ oi' = oi + 1
  /\ i' = 0
  /\ j' = 0
  /\ UNCHANGED <<rs, r, ret>>

\* one turn of the inner "loop"
permute_loop ==
  /\ pc = "walk"
  /\ LET e == emit[1] IN
       IF j >= Len(done)
         THEN Panic
         ELSE LET d == [done EXCEPT ![j + 1] = TRUE] IN
           IF j >= Len(e)
             THEN LET ks == {k \in search_from(i)..(Len(e) - 1) : e[k + 1] = i} IN
               IF ks = {}
                 THEN break(d)
                 ELSE LET k == Min(ks) IN
                   IF k >= Len(d) \/ k >= Len(data) \/ j >= Len(data)
                     THEN Panic
                     ELSE /\ done' = [d EXCEPT ![k + 1] = TRUE]
                          /\ rs' = swap(k, j)
                          /\ i' = k
                          /\ UNCHANGED <<pc, r, oi, j, ret>>
             ELSE IF e[j + 1] # i
               THEN IF j >= Len(data) \/ e[j + 1] >= Len(data)
                 THEN Panic
                 ELSE /\ done' = d
                      /\ rs' = swap(j, e[j + 1])
                      /\ j' = e[j + 1]
                      /\ UNCHANGED <<pc, r, oi, i, ret>>
               ELSE break(d)
  /\ UNCHANGED <<node, env, input>>

\* --------------------------------------------------------------- the system
on_connected == Identity_on_connected \/ Permute_on_connected

on_commit == \E u \in Addr : \E remap \in Remaps :
  Identity_on_commit(u, remap) \/ Permute_on_commit(u, remap)

on_input == \E from \in Addr : \E batch \in Batches(width) :
  \/ Identity_on_input(from, batch)
  \/ \E debug \in BOOLEAN : Permute_on_input(from, batch, debug)

Next ==
  \/ on_connected
  \/ on_commit
  \/ on_input
  \/ on_input_for
  \/ permute_for
  \/ permute_loop

Spec == Init /\ [][Next]_vars

\* on_input never suspends: a call that has started runs its loops
FairSpec == Spec /\ WF_vars(on_input_for \/ permute_for \/ permute_loop)

\* ------------------------------------------------------------ the claims
\* the naive gather: output[i] = input[emit[i]]
Gather(row, e) == [a \in 1..Len(e) |-> row[e[a] + 1]]

GatherBatch(b, e) ==
  [n \in 1..Len(b) |-> [sign |-> b[n].sign, row |-> Gather(b[n].row, e)]]

\* on_input has returned an Update
Returned == pc = "idle" /\ ret[1] = "Some"

\* a connected Permute whose emit spec meets the precondition
ValidPermute == op = "Permute" /\ stage # "constructed" /\ ValidEmit(emit0, width)

\* C1: once on_connected has run, for every emit spec with entries < cols and
\* no repeats, Permute.on_input returns the records in order, with their
\* signs, each row being the gather output[i] = input[emit[i]].
C1_GatherEq ==
  (ValidPermute /\ Returned) => ret[2] = GatherBatch(input, emit0)

\* C2: on_commit with a mapping that sends the current source to new leaves
\* ancestors() = [new] and resolve naming new as the upstream node, for
\* Identity and for Permute, at every commit of a sequence.
C2_Rewrite ==
  [][\A u \in Addr : \A m \in Remaps :
       (src \in DOMAIN m /\ (Identity_on_commit(u, m) \/ Permute_on_commit(u, m)))
       => /\ pc' = "idle"
          /\ src' = m[src]
          /\ op = "Identity" =>
               /\ Identity_ancestors' = <<m[src]>>
               /\ \A c \in 0..(width - 1) : Identity_resolve(c)' = Some(<<<<m[src], c>>>>)
          /\ op = "Permute" =>
               /\ Permute_ancestors' = <<m[src]>>
               /\ \A c \in 0..(Len(emit0) - 1) : Permute_resolve(c)'[1][1][1] = m[src]
    ]_vars

\* two commits in a row, the second one moving the source again
C2_Witness ==
  /\ stage = "committed"
  /\ pc = "idle"
  /\ prev_src # None
  /\ prev_src[1] # src
  /\ us # None
  /\ us[1] # src

\* C3: on a connected Permute, on_commit makes the emit spec absent exactly
\* when it has cols entries and emit[i] = i for each; once absent, on_input
\* returns its input unchanged and the description is the one of the full
\* projection; any other spec is kept as given and on_input still rewrites
\* each row to emit.len() columns taken from the input row.
C3_Collapse ==
  (op = "Permute" /\ stage = "committed") =>
    /\ (emit = None) <=>
         (Len(emit0) = width /\ \A c \in 0..(Len(emit0) - 1) : emit0[c + 1] = c)
    /\ emit # None => emit = Some(emit0)
    /\ emit = None =>
         /\ Permute_description = "π[*]"
         /\ Returned => ret = SomeUpdate(input)
    /\ (emit # None /\ Returned) =>
         /\ Len(ret[2]) = Len(input)
         /\ \A n \in 1..Len(input) :
              /\ ret[2][n].sign = input[n].sign
              /\ Len(ret[2][n].row) = Len(emit0)
              /\ \A a \in 1..Len(emit0) :
                   \E b \in 1..width : ret[2][n].row[a] = input[n].row[b]

\* a collapsed Permute has forwarded a record of a source at least 2 wide
C3_Witness ==
  /\ op = "Permute"
  /\ stage = "committed"
  /\ emit = None
  /\ Len(emit0) >= 2
  /\ Returned
  /\ Len(input) >= 1

\* C4: at every stage and for every output column c of a Permute, resolve(c)
\* is present and is [(src, emit0[c])], emit0 being the spec given at
\* construction and src the current source; the collapse does not change it.
C4_Resolve ==
  op = "Permute" =>
    \A c \in 0..(Len(emit0) - 1) : Permute_resolve(c) = Some(<<<<src, emit0[c + 1]>>>>)

\* resolve is asked of a Permute whose spec the commit has collapsed
C4_Witness ==
  /\ op = "Permute"
  /\ stage = "committed"
  /\ emit = None
  /\ Len(emit0) >= 2
  /\ prev_src # None
  /\ prev_src[1] # src

C6_Idempotent ==
  [][\A u \in Addr : \A m \in Remaps :
       ( /\ op = "Permute"
         /\ stage = "committed"
         /\ emit = None
         /\ us = Some(u)
         /\ prev_src # None
         /\ prev_src[1] \in DOMAIN m
         /\ m[prev_src[1]] = src
         /\ Permute_on_commit(u, m) )
       => /\ pc' = "idle"
          /\ src' = src
          /\ emit' = None
          /\ us' = us
    ]_vars

\* C7: an on_input whose message comes from another node than the current
\* ancestor aborts, for Identity and for Permute: it returns no Update, so
\* no row of such a message is forwarded.
C7_Fatal ==
  [][\A from \in Addr : \A batch \in Batches(width) :
       ( /\ from # src
         /\ Len(batch) >= 1
         /\ \/ Identity_on_input(from, batch)
            \/ \E debug \in BOOLEAN : Permute_on_input(from, batch, debug) )
       => pc' = "panic"
    ]_vars

\* C8: with an emit spec that repeats a source index, on_input on a row
\* aborts: it returns no Update (so no row that differs from the gather).
C8_Fatal ==
  ( /\ op = "Permute"
    /\ stage # "constructed"
    /\ ~Injective(emit0)
    /\ Len(input) >= 1 )
  => ~Returned

\* C9: for a spec without repeats, at the start of each turn of the outer
\* loop every output position before the iterator's, and every output
\* position marked done, holds its final value original[emit[p]].
C9_Settled ==
  (ValidPermute /\ pc = "outer") =>
    \A p \in 0..(Len(emit0) - 1) :
      (p < oi \/ done[p + 1]) => data[p + 1] = input[r + 1].row[emit0[p + 1] + 1]

\* C10: for a spec without repeats over a row of width cols, permute ends:
\* each cycle walk leaves its loop either at a position j with emit[j] = i
\* or at a position j >= emit.len() such that no later output position
\* emits i, the search only moves the start i upward, and every on_input
\* that has started returns.
C10_Terminates ==
  /\ [][(ValidPermute /\ pc = "walk") =>
          /\ (pc' = "walk" /\ i' # i) => (i' > i /\ j' = j /\ j >= Len(emit0))
          /\ pc' = "outer" =>
               \/ j < Len(emit0) /\ emit0[j + 1] = i
               \/ /\ j >= Len(emit0)
                  /\ ~\E k \in (i + 1)..(Len(emit0) - 1) : emit0[k + 1] = i
          /\ pc' # "panic"
       ]_vars
  /\ (ValidPermute /\ Running) ~> (pc = "idle")

\* a walk whose search has moved its start upward
C10_Witness ==
  /\ ValidPermute
  /\ pc = "walk"
  /\ i > oi
  /\ j >= Len(emit0)

====
